---- MODULE Spec2Model ----
(***************************************************************************)
(* Model of the golf swing head-movement analyzer:                         *)
(*   src/golf_swing_analyzer/app.py         main(): the analysis loop,     *)
(*                                          the stored results, the summary*)
(*   src/golf_swing_analyzer/visualizer.py  the drawing functions          *)
(*   src/golf_swing_analyzer/analyzer.py    PoseAnalyzer's pure helpers    *)
(*                                                                         *)
(* A frame's pixels are abstracted to the frame's index in the video and   *)
(* the list of drawing operations applied to it; the result of the skin    *)
(* segmentation and cv2.findContours on a frame is the list of bounding    *)
(* rectangles (x, y, w, h) of its contours, in region-finding order.       *)
(* st.session_state is a function from the keys it holds to their values,  *)
(* << >> when it holds none of the result keys.                            *)
(***************************************************************************)
EXTENDS Integers, Sequences, FiniteSets, TLC

\* Bounds of the model.
MaxFrames == 3
MaxContours == 2

\* app.py:133  "if d < 200"
GateRadius == 200

\* Python's None, told apart from every tuple of numbers.
None == << "None" >>

\* Bounding rectangles (x, y, w, h) a contour of a frame may have.
Boxes ==
    { <<30, 90, 20, 20>>,      \* centroid (40, 100)
      <<159, 99, 3, 3>>,       \* centroid (160, 100), small, odd size
      <<190, 50, 100, 100>>,   \* centroid (240, 100), large
      <<250, 50, 100, 100>>,   \* centroid (300, 100), large
      <<298, 99, 3, 3>> }      \* centroid (299, 100), small

\* What cv2.findContours can return for a frame: up to MaxContours distinct
\* contours, in any order.
ContourSeqs ==
    UNION { { s \in [1..n -> Boxes] : \A i, j \in 1..n : i # j => s[i] # s[j] }
            : n \in 0..MaxContours }

\* The values the user can enter for the head point (number_input) and the
\* radius (slider 30..150).
HeadPoints == { <<100, 100>>, <<160, 100>> }
SpineLines == { << <<100, 160>>, <<100, 260>> >> }
Radii == { 60, 140 }

\* CAP_PROP_FRAME_COUNT as OpenCV reports it: the number of frames, or 0 when
\* the container does not tell.
TotalFramesVals == { 0, MaxFrames }

VARIABLES
    pc,                   \* where main() is: "marking", "loop", "done", "aborted"
    total_frames,         \* app.py:58
    head_initial,         \* app.py:104
    spine_line,           \* app.py:105
    head_circle,          \* app.py:106  <<center, radius>>
    current_head_pos,     \* app.py:107
    prev_head_pos,        \* current_head_pos on entry to the last iteration
    frame_idx,            \* app.py:111
    cap_pos,              \* frames the capture has decoded (cap.read() with ret)
    frame,                \* the frame object of the last iteration (app.py:113)
    contours,             \* app.py:126, of the last iteration
    output_frames,        \* app.py:101
    head_outside_frames,  \* app.py:102
    unread,               \* frames of the video left unread when the loop ended
    session_state,        \* st.session_state: the keys output_frames, head_outside_frames
    metrics,              \* app.py:165-174, what the three st.metric show
    analyzer_call,        \* the last call of a PoseAnalyzer method, with its arguments
    analyzer_result,      \* what that call returned
    runs,                 \* two runs of the loop side by side: <<first, second>>
    reordered,            \* the two runs have seen tied contours in different orders
    track,                \* one tracking step on two orders of the same contours
    uploader,             \* the file in the st.file_uploader widget, or None
    current_upload,       \* st.session_state.current_upload (app.py:22, 45)
    is_auto,              \* the value of the checkbox auto_play_mode (app.py:187)
    displayed             \* what the last run of the script has displayed so far
                          \* (app.py:161-206), None when it shows no results

mainVars == << pc, total_frames, head_initial, spine_line, head_circle,
               current_head_pos, prev_head_pos, frame_idx, cap_pos, frame, contours,
               output_frames, head_outside_frames, unread, session_state, metrics >>

analyzerVars == << analyzer_call, analyzer_result >>

runVars == << runs, reordered >>

trackVars == << track >>

sessionVars == << uploader, current_upload, is_auto, displayed >>

vars == << mainVars, analyzerVars, runVars, trackVars, sessionVars >>

----------------------------------------------------------------------------
\* Numbers

\* The integer part of the square root of n >= 0.
RECURSIVE ISqrtBetween(_, _, _)
ISqrtBetween(n, lo, hi) ==
    IF lo = hi THEN lo
    ELSE LET mid == (lo + hi + 1) \div 2
         IN IF mid * mid <= n THEN ISqrtBetween(n, mid, hi)
            ELSE ISqrtBetween(n, lo, mid - 1)

ISqrt(n) == ISqrtBetween(n, 0, n)

\* np.sqrt of a non-negative integer.  The real number sqrt(n) is kept exactly
\* as <<k, r>> with k = floor(sqrt(n)) and r = n - k*k (0 <= r <= 2k), so that
\* sqrt(n) = k exactly iff r = 0 and the order of the values is the
\* lexicographic order of the pairs.
NpSqrt(n) == LET k == ISqrt(n) IN << k, n - k * k >>

\* d < m and d > m for a square root d and an integer m.
SqrtLessThanInt(d, m) == d[1] < m
SqrtGreaterThanInt(d, m) == d[1] > m \/ (d[1] = m /\ d[2] > 0)

\* d1 < d2 and d1 = d2 for two square roots.
SqrtLess(d1, d2) == d1[1] < d2[1] \/ (d1[1] = d2[1] /\ d1[2] < d2[2])

\* (x1 - x2)**2 + (y1 - y2)**2
SquaredDistance(p, q) ==
    (p[1] - q[1]) * (p[1] - q[1]) + (p[2] - q[2]) * (p[2] - q[2])

\* np.sqrt((cx - px)**2 + (cy - py)**2)
Distance(p, q) == NpSqrt(SquaredDistance(p, q))

----------------------------------------------------------------------------
\* Head tracking  (app.py:126-136)

\* cx, cy = x + w//2, y + h//2
Centroid(b) == << b[1] + (b[3] \div 2), b[2] + (b[4] \div 2) >>

\* Variant of InGate with the gate closed at 200: "if d <= 200".
InGateInclusive(d) == ~ SqrtGreaterThanInt(d, GateRadius)

\* if d < 200
InGate(d) == SqrtLessThanInt(d, GateRadius)

\* The list `candidates` built by the loop over the contours: one
\* (d, (cx, cy)) for every contour with d < 200, in the contours' order.
RECURSIVE Candidates(_, _)
Candidates(cs, pos) ==
    IF cs = << >> THEN << >>
    ELSE LET c == Centroid(Head(cs))
             d == Distance(c, pos)
             rest == Candidates(Tail(cs), pos)
         IN IF InGate(d) THEN << << d, c >> >> \o rest ELSE rest

\* Variant of TupleLess that compares the centroids by cy first, then cx.
TupleLessYFirst(a, b) ==
    \/ SqrtLess(a[1], b[1])
    \/ /\ a[1] = b[1]
       /\ \/ a[2][2] < b[2][2]
          \/ (a[2][2] = b[2][2] /\ a[2][1] < b[2][1])

\* Python's order on the tuples (d, (cx, cy)): by d, then cx, then cy.
TupleLess(a, b) ==
    \/ SqrtLess(a[1], b[1])
    \/ /\ a[1] = b[1]
       /\ \/ a[2][1] < b[2][1]
          \/ (a[2][1] = b[2][1] /\ a[2][2] < b[2][2])

\* Variant of SortedFirst that orders by the distance alone, keeping the
\* list's order among equals: sorted(candidates, key=lambda t: t[0])[0].
SortedFirstByDistance(cands) ==
    cands[CHOOSE i \in 1..Len(cands) :
            /\ \A j \in 1..Len(cands) : ~ SqrtLess(cands[j][1], cands[i][1])
            /\ \A j \in 1..(i - 1) : cands[j][1] # cands[i][1]]

\* sorted(candidates)[0], for a non-empty list.
SortedFirst(cands) ==
    CHOOSE a \in { cands[i] : i \in 1..Len(cands) } :
        \A i \in 1..Len(cands) : ~ TupleLess(cands[i], a)

\* Variant of TrackHead that prefers the largest bounding box among the
\* contours in the gate.
TrackHeadLargest(cs, pos) ==
    LET inGate == { i \in 1..Len(cs) : InGate(Distance(Centroid(cs[i]), pos)) }
    IN IF inGate = { } THEN pos
       ELSE Centroid(cs[CHOOSE i \in inGate :
                          \A j \in inGate : cs[j][3] * cs[j][4] <= cs[i][3] * cs[i][4]])

\* Variant of TrackHead that searches again when nothing is in the gate: it
\* then takes the nearest contour, however far.
TrackHeadReacquire(cs, pos) ==
    IF cs = << >> THEN pos
    ELSE LET candidates == Candidates(cs, pos)
         IN IF candidates # << >> THEN SortedFirst(candidates)[2]
            ELSE Centroid(cs[CHOOSE i \in 1..Len(cs) :
                               \A j \in 1..Len(cs) :
                                   SquaredDistance(Centroid(cs[i]), pos)
                                      <= SquaredDistance(Centroid(cs[j]), pos)])

\* The value of current_head_pos after lines 127-136.
TrackHead(cs, pos) ==
    IF cs # << >>
    THEN LET candidates == Candidates(cs, pos)
         IN IF candidates # << >> THEN SortedFirst(candidates)[2] ELSE pos
    ELSE pos

----------------------------------------------------------------------------
\* Head outside the circle  (app.py:138-141)

\* Variant of HeadOutside that latches: once a frame was outside, every later
\* frame is reported outside.
HeadOutsideLatched(pos, circle) ==
    \/ SqrtGreaterThanInt(Distance(pos, circle[1]), circle[2])
    \/ \E i \in 1..Len(head_outside_frames) : head_outside_frames[i]

\* Variant of HeadOutside that counts the circle itself as outside:
\* "dist >= head_circle[1]".
HeadOutsideOrOn(pos, circle) ==
    ~ SqrtLessThanInt(Distance(pos, circle[1]), circle[2])

\* dist > head_circle[1]
HeadOutside(pos, circle) ==
    SqrtGreaterThanInt(Distance(pos, circle[1]), circle[2])

----------------------------------------------------------------------------
\* Drawing  (visualizer.py).  A frame is [id, drawn]: which frame of the video
\* it is and the drawing operations its pixels have received, in order.  The
\* cv2 drawing calls write into the array they are given.

Green == << 0, 255, 0 >>
Red == << 0, 0, 255 >>
Yellow == << 0, 255, 255 >>

\* Python's truth value of a tuple or None.
Truthy(t) == t # None /\ t # << >>

Draw(fr, op) == [ fr EXCEPT !.drawn = Append(@, op) ]

draw_spine_line(fr, line, color, thickness) ==
    IF Truthy(line) THEN Draw(fr, << "line", line[1], line[2], color, thickness >>)
    ELSE fr

draw_head_circle(fr, circle, color, thickness) ==
    IF Truthy(circle) THEN Draw(fr, << "circle", circle[1], circle[2], color, thickness >>)
    ELSE fr

draw_head_point(fr, head_pos, color, radius) ==
    IF Truthy(head_pos) THEN Draw(fr, << "circle", head_pos, radius, color, -1 >>)
    ELSE fr

draw_status_text(fr, text, position, color) ==
    Draw(fr, << "text", text, position, color >>)

\* The frame after the four drawing calls of process_video_frame.
Annotated(fr, line, circle, head_pos, head_outside) ==
    LET f1 == draw_spine_line(fr, line, Green, 2)
        f2 == draw_head_circle(f1, circle, IF head_outside THEN Red ELSE Green, 2)
        f3 == draw_head_point(f2, head_pos, Yellow, 5)
    IN draw_status_text(f3,
                        IF head_outside THEN "Head Outside Circle"
                        ELSE "Head Inside Circle",
                        << 10, 30 >>,
                        IF head_outside THEN Red ELSE Green)

\* process_video_frame: what it returns, and what the array it was given
\* holds afterwards.  Every draw_* function draws on its argument and returns
\* it, so the returned frame is the argument itself.
process_video_frame(fr, line, circle, head_pos, head_outside) ==
    LET a == Annotated(fr, line, circle, head_pos, head_outside)
    IN [ returned |-> a, argument |-> a ]

----------------------------------------------------------------------------
\* Summary  (app.py:165-174)

\* Variant of SumFlags that counts every flag, true or false.
SumFlagsAll(flags) == Len(flags)

\* sum(head_outside_frames)
RECURSIVE SumFlags(_)
SumFlags(flags) ==
    IF flags = << >> THEN 0
    ELSE (IF Head(flags) THEN 1 ELSE 0) + SumFlags(Tail(flags))

\* The three metrics.  pct = outside_count / len(output_frames) * 100 is kept
\* as the fraction <<numerator, denominator>>.
Summary(frames, flags) ==
    LET outside_count == SumFlags(flags)
    IN [ total |-> Len(frames),
         outside_count |-> outside_count,
         pct |-> IF frames # << >> THEN << outside_count * 100, Len(frames) >>
                 ELSE << 0, 1 >> ]

----------------------------------------------------------------------------
\* main()  (app.py)

\* The script has shown the first frame and the inputs; nothing is analysed.
InitMain ==
    /\ pc = "marking"
    /\ total_frames \in TotalFramesVals
    /\ head_initial = None
    /\ spine_line = None
    /\ head_circle = None
    /\ current_head_pos = None
    /\ prev_head_pos = None
    /\ frame_idx = 0
    /\ cap_pos = 0
    /\ frame = None
    /\ contours = << >>
    /\ output_frames = << >>
    /\ head_outside_frames = << >>
    /\ unread = 0
    /\ session_state = << >>
    /\ metrics = None

Init ==
    /\ InitMain
    /\ analyzer_call = None
    /\ analyzer_result = None
    /\ runs = None
    /\ reordered = FALSE
    /\ track = None
    /\ uploader = None
    /\ current_upload = None
    /\ is_auto = TRUE
    /\ displayed = None

\* Variant of ListAppend that inserts at the front: list.insert(0, item).
ListPrepend(list, item) == << item >> \o list

\* list.append  (app.py:142, 147)
ListAppend(list, item) == Append(list, item)

\* app.py:97-111  the button is clicked with the marked points and the radius.
ClickAnalyze ==
    /\ pc = "marking"
    /\ \E head \in HeadPoints, line \in SpineLines, radius \in Radii :
         /\ head_initial' = head
         /\ spine_line' = line
         /\ head_circle' = << head, radius >>
         /\ current_head_pos' = head
         /\ prev_head_pos' = head
    /\ output_frames' = << >>
    /\ head_outside_frames' = << >>
    /\ frame_idx' = 0
    /\ cap_pos' = 0
    /\ pc' = "loop"
    /\ UNCHANGED << total_frames, frame, contours, unread, session_state, metrics >>
    /\ UNCHANGED << analyzerVars, runVars >>
    /\ UNCHANGED << trackVars, sessionVars >>

\* app.py:113-150  one iteration of the loop on a frame that was read
\* (ret is true) and whose contours are cs.
ProcessFrameOn(cs) ==
    /\ pc = "loop"
    /\ cap_pos < MaxFrames
    /\ \E pos \in { TrackHead(cs, current_head_pos) } :
       \E head_outside \in { HeadOutside(pos, head_circle) } :
       \E call \in { process_video_frame([ id |-> cap_pos + 1, drawn |-> << >> ],
                                         spine_line, head_circle, pos, head_outside) } :
          /\ cap_pos' = cap_pos + 1
          /\ contours' = cs
          /\ prev_head_pos' = current_head_pos
          /\ current_head_pos' = pos
          /\ head_outside_frames' = ListAppend(head_outside_frames, head_outside)
          /\ frame' = call.argument
          /\ output_frames' = ListAppend(output_frames, call.returned)
          /\ frame_idx' = frame_idx + 1
          \* progress_bar.progress(min(frame_idx / total_frames, 1.0)):
          \* the division raises ZeroDivisionError when total_frames is 0 and
          \* nothing catches it.
          /\ pc' = IF total_frames = 0 THEN "aborted" ELSE "loop"
    /\ UNCHANGED << total_frames, head_initial, spine_line, head_circle,
                    unread, session_state, metrics >>

ProcessFrame ==
    /\ \E cs \in ContourSeqs : ProcessFrameOn(cs)
    /\ UNCHANGED << analyzerVars, runVars >>
    /\ UNCHANGED << trackVars, sessionVars >>

\* app.py:113-115, 152-174  cap.read() returns ret false, at the end of the
\* video (left = 0) or on a frame that cannot be decoded (left > 0 frames of
\* the video are then never read): the loop ends, the results are stored and
\* the summary is shown.  The first frame was read at line 63.
FinishLoop ==
    /\ pc = "loop"
    /\ cap_pos >= 1
    /\ \E left \in 0..(MaxFrames - cap_pos) : unread' = left
    /\ frame' = None
    /\ session_state' = [ output_frames |-> output_frames,
                          head_outside_frames |-> head_outside_frames ]
    /\ metrics' = Summary(session_state'.output_frames,
                          session_state'.head_outside_frames)
    /\ pc' = "done"
    /\ UNCHANGED << total_frames, head_initial, spine_line, head_circle,
                    current_head_pos, prev_head_pos, frame_idx, cap_pos, contours,
                    output_frames, head_outside_frames >>
    /\ UNCHANGED << analyzerVars, runVars >>
    /\ UNCHANGED << trackVars, sessionVars >>

Next == ClickAnalyze \/ ProcessFrame \/ FinishLoop

Spec == Init /\ [][Next]_vars

----------------------------------------------------------------------------
\* PoseAnalyzer  (analyzer.py:107-126), called on its own.  A key-point dict
\* is a function from its keys to points; {} is the function with no key.

AnalyzerPoints == { <<100, 100>>, <<160, 100>>, <<240, 100>> }

KeyPointDicts ==
    { << >> } \cup { "head" :> p : p \in AnalyzerPoints }
              \cup { "left_shoulder" :> p : p \in AnalyzerPoints }

RadiusArgs == { -5, 0, 50, 60 }

\* PoseAnalyzer.compute_head_circle
compute_head_circle(kp, radius) ==
    IF "head" \notin DOMAIN kp THEN None ELSE << kp["head"], radius >>

\* PoseAnalyzer.head_outside_circle
head_outside_circle(head_center, circle_center, radius) ==
    IF ~ Truthy(head_center) \/ ~ Truthy(circle_center) THEN FALSE
    ELSE SqrtGreaterThanInt(Distance(head_center, circle_center), radius)

CallComputeHeadCircle ==
    /\ \E kp \in KeyPointDicts, radius \in RadiusArgs :
         /\ analyzer_call' = << "compute_head_circle", kp, radius >>
         /\ analyzer_result' = compute_head_circle(kp, radius)
    /\ UNCHANGED << mainVars, runVars >>
    /\ UNCHANGED << trackVars, sessionVars >>

CallHeadOutsideCircle ==
    /\ \E head_center \in AnalyzerPoints \cup { None, << >> },
          circle_center \in AnalyzerPoints \cup { None, << >> },
          radius \in RadiusArgs :
         /\ analyzer_call' = << "head_outside_circle", head_center, circle_center, radius >>
         /\ analyzer_result' = head_outside_circle(head_center, circle_center, radius)
    /\ UNCHANGED << mainVars, runVars >>
    /\ UNCHANGED << trackVars, sessionVars >>

\* PoseAnalyzer.get_key_points  (analyzer.py:44-84).  A face is (x, y, w, h);
\* a contour is <<area, box>>: its cv2.contourArea and its cv2.boundingRect.

\* sorted(items, key=...) for the keys given item by item, and with
\* reverse=True when descending: Python's sort is stable both ways, so among
\* equal keys the items keep the order of the list.
StableSorted(items, keys, descending) ==
    LET n == Len(items)
        Before(a, b) ==
            \/ IF descending THEN keys[a] > keys[b] ELSE keys[a] < keys[b]
            \/ ( keys[a] = keys[b] /\ a < b )
        Rank(a) == 1 + Cardinality({ b \in 1..n : Before(b, a) })
    IN [ k \in 1..n |-> items[CHOOSE a \in 1..n : Rank(a) = k] ]

\* (x + w // 2, y + h // 2)
BoxCenter(b) == << b[1] + (b[3] \div 2), b[2] + (b[4] \div 2) >>

\* contours[:5]
FirstFive(list) == SubSeq(list, 1, IF Len(list) < 5 THEN Len(list) ELSE 5)

\* `boxes` of lines 63-65, for a non-empty list of contours.
SortedBoxes(cnts) ==
    LET largest == FirstFive(StableSorted(cnts, [ i \in 1..Len(cnts) |-> cnts[i][1] ], TRUE))
        boxes == [ i \in 1..Len(largest) |-> largest[i][2] ]
    IN StableSorted(boxes, [ i \in 1..Len(boxes) |-> boxes[i][2] ], FALSE)

\* The call ends <<"returned", kp>> or <<"raised", exception>>.  `boxes` is
\* assigned only under "if len(contours) > 0" (line 62) and read at line 80
\* whenever kp has no 'head': without faces and without contours the read
\* raises UnboundLocalError.
get_key_points(detection) ==
    LET faces == detection.faces
        cnts == detection.contours
        face == StableSorted(faces, [ i \in 1..Len(faces) |-> faces[i][3] * faces[i][4] ], TRUE)[1]
        boxes == SortedBoxes(cnts)
        mid == boxes[(Len(boxes) \div 2) + 1]
        last == boxes[Len(boxes)]
        keys == ( IF Len(faces) > 0 \/ Len(cnts) > 0 THEN { "head" } ELSE { } )
                \cup ( IF Len(cnts) > 1 THEN { "left_shoulder", "right_shoulder" } ELSE { } )
                \cup ( IF Len(cnts) > 2 THEN { "left_hip", "right_hip" } ELSE { } )
        value(k) ==
            CASE k = "head" ->
                   IF Len(faces) > 0 THEN BoxCenter(face) ELSE BoxCenter(boxes[1])
              [] k = "left_shoulder" -> << mid[1], mid[2] + (mid[4] \div 2) >>
              [] k = "right_shoulder" -> << mid[1] + mid[3], mid[2] + (mid[4] \div 2) >>
              [] k = "left_hip" -> << last[1], last[2] + last[4] >>
              [] k = "right_hip" -> << last[1] + last[3], last[2] + last[4] >>
    IN IF Len(faces) = 0 /\ Len(cnts) = 0
       THEN << "raised", "UnboundLocalError" >>
       ELSE << "returned", [ k \in keys |-> value(k) ] >>

KpFaces ==
    { <<90, 80, 20, 20>>,      \* area 400, center (100, 90)
      <<200, 50, 40, 40>>,     \* area 1600, center (220, 70)
      <<10, 10, 20, 20>> }     \* area 400, center (20, 20)

KpFaceLists ==
    UNION { { s \in [1..n -> KpFaces] : \A i, j \in 1..n : i # j => s[i] # s[j] }
            : n \in 0..2 }

KpContours ==
    { << 5000, <<80, 150, 60, 80>> >>,
      << 3000, <<70, 60, 40, 40>> >>,
      << 800, <<90, 300, 50, 31>> >> }

\* Six contours, the smallest of them the topmost.
SixContours ==
    << << 5000, <<80, 150, 60, 80>> >>, << 100, <<50, 5, 10, 10>> >>,
       << 3000, <<70, 60, 40, 40>> >>, << 800, <<90, 300, 50, 31>> >>,
       << 2000, <<60, 200, 30, 30>> >>, << 1500, <<60, 250, 30, 30>> >> >>

KpContourLists ==
    UNION { { s \in [1..n -> KpContours] : \A i, j \in 1..n : i # j => s[i] # s[j] }
            : n \in 0..3 }
    \cup { SixContours, [ i \in 1..6 |-> SixContours[7 - i] ] }

CallGetKeyPoints ==
    /\ \E faces \in KpFaceLists, cnts \in KpContourLists :
         /\ analyzer_call' = << "get_key_points", faces, cnts >>
         /\ analyzer_result' = get_key_points([ faces |-> faces, contours |-> cnts ])
    /\ UNCHANGED << mainVars, runVars >>
    /\ UNCHANGED << trackVars, sessionVars >>

NextAnalyzer == CallComputeHeadCircle \/ CallHeadOutsideCircle \/ CallGetKeyPoints

SpecAnalyzer == Init /\ [][NextAnalyzer]_vars

----------------------------------------------------------------------------
\* Two runs of the analysis loop (app.py:104-142) on the same video with the
\* same marked head point and circle, frame by frame.  In each frame the two
\* runs get the same set of contours, each in an order of its own.  A run is
\* [pos, heads, flags]: current_head_pos, and the head position and the flag
\* of every frame so far.

\* One iteration of the loop for one run: lines 126-142.
RunFrame(run, circle, cs) ==
    LET pos == TrackHead(cs, run.pos)
    IN [ pos |-> pos,
         heads |-> ListAppend(run.heads, pos),
         flags |-> ListAppend(run.flags, HeadOutside(pos, circle)) ]

SameContours(cs1, cs2) ==
    /\ Len(cs1) = Len(cs2)
    /\ { cs1[i] : i \in 1..Len(cs1) } = { cs2[i] : i \in 1..Len(cs2) }

\* Two contours of the list are at the same distance from pos, inside the gate.
TiedInGate(cs, pos) ==
    \E i, j \in 1..Len(cs) :
        /\ i # j
        /\ InGate(Distance(Centroid(cs[i]), pos))
        /\ Distance(Centroid(cs[i]), pos) = Distance(Centroid(cs[j]), pos)

\* Lines 104-107 for both runs.
StartRuns ==
    /\ runs = None
    /\ \E head \in HeadPoints, radius \in Radii :
         /\ head_initial' = head
         /\ head_circle' = << head, radius >>
         /\ runs' = << [ pos |-> head, heads |-> << >>, flags |-> << >> ],
                       [ pos |-> head, heads |-> << >>, flags |-> << >> ] >>
    /\ UNCHANGED << pc, total_frames, spine_line, current_head_pos, prev_head_pos,
                    frame_idx, cap_pos, frame, contours, output_frames,
                    head_outside_frames, unread, session_state, metrics >>
    /\ UNCHANGED << analyzerVars, reordered >>
    /\ UNCHANGED << trackVars, sessionVars >>

\* One frame for both runs.
BothRunsFrame ==
    /\ runs # None
    /\ Len(runs[1].heads) < MaxFrames
    /\ \E cs1 \in ContourSeqs, cs2 \in ContourSeqs :
         /\ SameContours(cs1, cs2)
         /\ runs' = << RunFrame(runs[1], head_circle, cs1),
                       RunFrame(runs[2], head_circle, cs2) >>
         /\ reordered' = ( reordered \/ ( cs1 # cs2 /\ TiedInGate(cs1, runs[1].pos) ) )
    /\ UNCHANGED << mainVars, analyzerVars >>
    /\ UNCHANGED << trackVars, sessionVars >>

NextDet == StartRuns \/ BothRunsFrame

SpecDet == Init /\ [][NextDet]_vars

----------------------------------------------------------------------------
\* One tracking step (app.py:126-136) from a head position the loop can be
\* at, on two orders of the same contours.  Besides the contours of Boxes the
\* frame may show three whose centroids are at the same distance from
\* (100, 100) and differ in x, in y, or in both.

TrackBoxes ==
    Boxes \cup { <<155, 35, 10, 10>>,     \* centroid (160, 40)
                 <<155, 155, 10, 10>>,    \* centroid (160, 160)
                 <<35, 155, 10, 10>> }    \* centroid (40, 160)

TrackContourSeqs ==
    UNION { { s \in [1..n -> TrackBoxes] : \A i, j \in 1..n : i # j => s[i] # s[j] }
            : n \in 0..MaxContours }

TrackPositions == HeadPoints \cup { Centroid(b) : b \in Boxes }

TrackBothOrders ==
    /\ track = None
    /\ \E pos \in TrackPositions, cs1 \in TrackContourSeqs, cs2 \in TrackContourSeqs :
         /\ SameContours(cs1, cs2)
         \* <<position before, the two orders, the two new positions>>
         /\ track' = << pos, << cs1, cs2 >>,
                        << TrackHead(cs1, pos), TrackHead(cs2, pos) >> >>
    /\ UNCHANGED << mainVars, analyzerVars, runVars, sessionVars >>

NextTrack == TrackBothOrders

SpecTrack == Init /\ [][NextTrack]_vars

----------------------------------------------------------------------------
\* One session of the app: Streamlit runs main() from the top after every
\* change of a widget, with st.session_state kept between the runs.  A run
\* that displays results waits in time.sleep after each frame of the
\* slideshow (app.py:190-192); a change of a widget during the wait ends the
\* run there and starts the next one.  The checkbox of the automatic play
\* (key auto_play_mode) is drawn only by a run that displays results
\* (app.py:161, 187); it keeps its value from one such run to the next, and
\* is back at its default, ticked, after a run that did not draw it.

\* File names the uploader accepts (type=["mp4", ...], app.py:30), as
\* <<stem, extension>>.
SessionNames == { << "a", "mp4" >>, << "b", "mp4" >> }

\* The videos a file can hold: <<CAP_PROP_FRAME_COUNT, the contours of the
\* frames cap.read() decodes>>.  The third reports no frame count; the fourth
\* cannot be decoded at all.
SessionVideos ==
    << << 2, << << <<159, 99, 3, 3>> >>, << <<190, 50, 100, 100>> >> >> >>,
       << 1, << << <<250, 50, 100, 100>>, <<30, 90, 20, 20>> >> >> >>,
       << 0, << << <<159, 99, 3, 3>> >> >> >>,
       << 0, << >> >> >>

\* An uploaded file: <<name, index of its video>>.
Files == SessionNames \X (1..Len(SessionVideos))

\* del st.session_state[k] for the keys of ks that are present  (app.py:39-44)
DelKeys(state, ks) == [ k \in { j \in DOMAIN state : j \notin ks } |-> state[k] ]

\* app.py:112-150  the loop over the frames from frame number i on.
RECURSIVE AnalyzeFrames(_, _, _, _, _, _, _, _)
AnalyzeFrames(video, frames, i, line, circle, pos, out, flags) ==
    IF i > Len(frames) THEN << out, flags >>
    ELSE LET new == TrackHead(frames[i], pos)
             head_outside == HeadOutside(new, circle)
             call == process_video_frame([ id |-> << video, i >>, drawn |-> << >> ],
                                         line, circle, new, head_outside)
         IN AnalyzeFrames(video, frames, i + 1, line, circle, new,
                          ListAppend(out, call.returned),
                          ListAppend(flags, head_outside))

\* app.py:97-157  the analysis of a video whose first frame can be read:
\* <<"stored", output_frames, head_outside_frames>>, or the exception of
\* line 150 when the video reports 0 frames.
Analysis(video, head, line, radius) ==
    IF SessionVideos[video][1] = 0
    THEN << "raised", "ZeroDivisionError" >>
    ELSE LET lists == AnalyzeFrames(video, SessionVideos[video][2], 1, line,
                                    << head, radius >>, head, << >>, << >>)
         IN << "stored", lists[1], lists[2] >>

\* app.py:161-206  what the run has displayed from the cache when it first
\* waits or ends: <<output_frames, head_outside_frames of the metrics, the
\* number of frames shown in the slideshow's place, whether the frame
\* inspection of lines 198-206 is shown>>; None when the cache holds no
\* results.  With automatic play the run shows the first frame and waits
\* (lines 189-192); without, it shows the selected frame and goes on to the
\* frame inspection and its end (lines 193-206).  The cached list is never
\* empty: the analysis stores what it made of a video whose first frame can
\* be read.
Display(state, auto) ==
    IF "output_frames" \in DOMAIN state
    THEN << state.output_frames, state.head_outside_frames, 1, ~auto >>
    ELSE None

\* The run is in time.sleep at app.py:192.
Sleeping == displayed # None /\ ~displayed[4]

\* app.py:161-206  the end of a run that has reached line 161 with the
\* cache `state` and the checkbox value auto.
ShowResults(state, auto) ==
    /\ displayed' = Display(state, auto)
    /\ is_auto' = IF "output_frames" \in DOMAIN state THEN auto ELSE TRUE

\* The run ends before line 161 (return at line 35 or 68, exception at line
\* 150): no results are displayed and the checkbox is not drawn.
ShowNothing ==
    /\ displayed' = None
    /\ is_auto' = TRUE

\* app.py:14-206  one run of main() with the file in the uploader and the
\* value auto of the checkbox, up to its end or to its first wait in the
\* slideshow; clicked says whether the run is the one the analysis button
\* started.
RunScript(clicked, head, line, radius, auto) ==
    IF uploader' = None
    THEN \* line 33-35
         /\ UNCHANGED << current_upload, session_state >>
         /\ ShowNothing
    ELSE \E name \in { uploader'[1] }, video \in { uploader'[2] } :
         \E kept \in { IF name # current_upload
                       THEN DelKeys(session_state,
                                    { "video_data", "output_frames", "head_outside_frames" })
                       ELSE session_state } :
            /\ current_upload' = name
            /\ IF Len(SessionVideos[video][2]) = 0
               THEN \* line 66-68
                    /\ session_state' = kept
                    /\ ShowNothing
               ELSE IF ~clicked
               THEN /\ session_state' = kept
                    /\ ShowResults(kept, auto)
               ELSE \E result \in { Analysis(video, head, line, radius) } :
                       IF result[1] = "raised"
                       THEN /\ session_state' = kept
                            /\ ShowNothing
                       ELSE /\ session_state' =
                                 [ k \in DOMAIN kept \cup { "output_frames", "head_outside_frames" } |->
                                     IF k = "output_frames" THEN result[2]
                                     ELSE IF k = "head_outside_frames" THEN result[3]
                                     ELSE kept[k] ]
                            /\ ShowResults(session_state', auto)

\* What a run of the script leaves alone.
SessionUnchanged ==
    /\ UNCHANGED << pc, total_frames, head_initial, spine_line, head_circle,
                    current_head_pos, prev_head_pos, frame_idx, cap_pos, frame,
                    contours, output_frames, head_outside_frames, unread, metrics >>
    /\ UNCHANGED << analyzerVars, runVars, trackVars >>

\* app.py:30  the user puts a file into the uploader.
UploadFile ==
    /\ \E f \in Files :
         /\ uploader' = f
         /\ RunScript(FALSE, None, None, None, is_auto)
    /\ SessionUnchanged

\* app.py:30  the user removes the file from the uploader.
RemoveFile ==
    /\ uploader # None
    /\ uploader' = None
    /\ RunScript(FALSE, None, None, None, is_auto)
    /\ SessionUnchanged

\* app.py:97  the user clicks the analysis button, which the last run drew
\* after it had read the first frame (before any wait).
SessionClickAnalyze ==
    /\ uploader # None
    /\ Len(SessionVideos[uploader[2]][2]) > 0
    /\ uploader' = uploader
    /\ \E head \in HeadPoints, line \in SpineLines, radius \in Radii :
         RunScript(TRUE, head, line, radius, is_auto)
    /\ SessionUnchanged

\* app.py:187  the checkbox of the automatic play, which the last run drew
\* with the results, is ticked or unticked.
SetAutoPlay ==
    /\ displayed # None
    /\ uploader' = uploader
    /\ RunScript(FALSE, None, None, None, ~is_auto)
    /\ SessionUnchanged

\* Any other widget changes (a number input, a slider): the script runs
\* again.
ChangeWidget ==
    /\ uploader' = uploader
    /\ RunScript(FALSE, None, None, None, is_auto)
    /\ SessionUnchanged

\* app.py:190-206  time.sleep returns: the slideshow shows its next frame
\* and waits again, or, after the last frame, the run shows the frame
\* inspection and ends.
PlayNextFrame ==
    /\ Sleeping
    /\ displayed' = IF displayed[3] < Len(displayed[1])
                    THEN << displayed[1], displayed[2], displayed[3] + 1, FALSE >>
                    ELSE << displayed[1], displayed[2], displayed[3], TRUE >>
    /\ UNCHANGED << uploader, current_upload, is_auto, session_state >>
    /\ SessionUnchanged

NextSession ==
    \/ UploadFile \/ RemoveFile \/ SessionClickAnalyze
    \/ SetAutoPlay \/ ChangeWidget \/ PlayNextFrame

SpecSession == Init /\ [][NextSession]_vars

----------------------------------------------------------------------------
\* Properties

\* The head position drawn on an annotated frame (the third drawing call).
DrawnHead(fr) == fr.drawn[3][2]

\* A frame has been processed and `contours`, prev_head_pos are its own.
FrameProcessed == frame_idx >= 1

\* The contours' centroids strictly inside the gate around p.
InGateCentroids(cs, p) ==
    { Centroid(cs[i]) : i \in { j \in 1..Len(cs) :
          SquaredDistance(Centroid(cs[j]), p) < GateRadius * GateRadius } }

\* C1: for every processed frame the recorded flag is true iff the squared
\* distance between the frame's head position and the circle's center is
\* strictly greater than the squared radius (on the circle is not outside).
C1_FlagIffBeyondRadius ==
    \A i \in 1..Len(head_outside_frames) :
        head_outside_frames[i] =
            ( SquaredDistance(DrawnHead(output_frames[i]), head_circle[1])
                > head_circle[2] * head_circle[2] )

\* A frame whose head is exactly on the circle, recorded as not outside, after
\* a frame recorded as outside.
C1_Witness ==
    /\ Len(head_outside_frames) >= 2
    /\ head_outside_frames[1]
    /\ ~ head_outside_frames[2]
    /\ SquaredDistance(DrawnHead(output_frames[2]), head_circle[1])
          = head_circle[2] * head_circle[2]
    /\ head_circle[2] > 0

\* C2: after a frame with no contours, or with every centroid at distance
\* >= 200 from the previous head position, the head position is the previous
\* one exactly.
C2_HoldLastKnown ==
    ( FrameProcessed /\ InGateCentroids(contours, prev_head_pos) = { } )
        => current_head_pos = prev_head_pos

\* The head has left the marked point, and a frame with a contour at exactly
\* 200 from it (and none nearer) leaves it where it was.
C2_Witness ==
    /\ FrameProcessed
    /\ contours # << >>
    /\ \E i \in 1..Len(contours) :
          SquaredDistance(Centroid(contours[i]), prev_head_pos) = GateRadius * GateRadius
    /\ InGateCentroids(contours, prev_head_pos) = { }
    /\ current_head_pos = prev_head_pos
    /\ current_head_pos # head_initial

\* C3: after a frame with a centroid at distance < 200 from the previous head
\* position, the head position is an in-gate centroid at the minimum distance
\* among the in-gate centroids, whatever the sizes of the bounding boxes.
C3_NearestInGate ==
    ( FrameProcessed /\ InGateCentroids(contours, prev_head_pos) # { } )
        => /\ current_head_pos \in InGateCentroids(contours, prev_head_pos)
           /\ \A c \in InGateCentroids(contours, prev_head_pos) :
                 SquaredDistance(current_head_pos, prev_head_pos)
                    <= SquaredDistance(c, prev_head_pos)

\* Two contours, the small one in the gate and the large one out of it (at
\* exactly 200): the small one is taken.
C3_Witness ==
    /\ FrameProcessed
    /\ Len(contours) = 2
    /\ \E i, j \in 1..2 :
          /\ current_head_pos = Centroid(contours[i])
          /\ current_head_pos # prev_head_pos
          /\ contours[i][3] * contours[i][4] < contours[j][3] * contours[j][4]
          /\ SquaredDistance(Centroid(contours[j]), prev_head_pos)
                = GateRadius * GateRadius

\* C4 as stated: the frame handed to process_video_frame has the pixels it
\* was read with after the call (nothing has been drawn on it).
C4_InputFrameUntouched ==
    ( FrameProcessed /\ pc # "done" ) => frame.drawn = << >>

\* C5: the metrics shown agree with the stored results: the total is the
\* number of annotated frames, the violation count is the number of true
\* flags, and the percentage is count / total * 100, and 0 for no frames.
C5_SummaryConsistent ==
    /\ pc = "done" =>
          LET flags == session_state.head_outside_frames
          IN /\ metrics.total = Len(session_state.output_frames)
             /\ metrics.outside_count
                   = Cardinality({ i \in 1..Len(flags) : flags[i] })
             /\ metrics.pct[2] > 0
             /\ metrics.pct[1] * metrics.total
                   = metrics.outside_count * 100 * metrics.pct[2]
    /\ Summary(<< >>, << >>).total = 0
    /\ Summary(<< >>, << >>).pct = << 0, 1 >>

\* Metrics shown for a run with violations in some frames and not in others.
C5_Witness ==
    /\ pc = "done"
    /\ metrics.outside_count > 0
    /\ metrics.outside_count < metrics.total

\* C6: after k frames have been read both result lists have k entries and
\* entry i is frame i of the video; a step of the loop only appends, leaving
\* the entries already there as they are.
C6_OneResultPerFrameInOrder ==
    /\ [] ( /\ Len(output_frames) = cap_pos
            /\ Len(head_outside_frames) = cap_pos
            /\ frame_idx = cap_pos
            /\ \A i \in 1..Len(output_frames) : output_frames[i].id = i )
    /\ [] [ pc = "loop" =>
              /\ Len(output_frames') >= Len(output_frames)
              /\ Len(head_outside_frames') >= Len(head_outside_frames)
              /\ \A i \in 1..Len(output_frames) :
                    output_frames'[i] = output_frames[i]
              /\ \A i \in 1..Len(head_outside_frames) :
                    head_outside_frames'[i] = head_outside_frames[i] ]_vars

\* Three frames read, three results, the second flag differing from the first.
C6_Witness ==
    /\ cap_pos = 3
    /\ Len(output_frames) = 3
    /\ Len(head_outside_frames) = 3
    /\ head_outside_frames[1] # head_outside_frames[2]

\* C7: the circle is the marked head point with the chosen radius and no step
\* of the loop changes it; a frame's flag is decided by the frame's head
\* position and that circle alone, so two frames with the same head position
\* have the same flag, whatever was recorded in between.
C7_FlagFromPositionAndFixedCircle ==
    /\ [] ( pc # "marking" =>
              /\ head_circle[1] = head_initial
              /\ head_circle[2] \in Radii
              /\ \A i, j \in 1..Len(head_outside_frames) :
                    DrawnHead(output_frames[i]) = DrawnHead(output_frames[j])
                        => head_outside_frames[i] = head_outside_frames[j] )
    /\ [] [ pc = "loop" =>
              ( head_circle' = head_circle /\ head_initial' = head_initial ) ]_vars

\* The head is inside, then outside, then back at the first position and
\* recorded inside again; it has moved while the circle has not.
C7_Witness ==
    /\ Len(head_outside_frames) = 3
    /\ ~ head_outside_frames[1]
    /\ head_outside_frames[2]
    /\ ~ head_outside_frames[3]
    /\ DrawnHead(output_frames[1]) = DrawnHead(output_frames[3])
    /\ DrawnHead(output_frames[1]) # head_initial
    /\ head_circle[1] = head_initial

\* C9 as stated: the run is never aborted, and when it is over every frame
\* of the video, decodable or not, has a result.
C9_EveryFrameGetsAResult ==
    /\ pc # "aborted"
    /\ pc = "done" =>
          /\ unread = 0
          /\ Len(session_state.output_frames) = cap_pos + unread

\* C8 as stated: a call with invalid input (a radius that is not positive, or
\* a required point that is missing) ends in an input-validation error.
InvalidArguments(call) ==
    \/ /\ call[1] = "compute_head_circle"
       /\ ( "head" \notin DOMAIN call[2] \/ call[3] <= 0 )
    \/ /\ call[1] = "head_outside_circle"
       /\ ( ~ Truthy(call[2]) \/ ~ Truthy(call[3]) \/ call[4] <= 0 )

C8_InvalidInputRejected ==
    ( analyzer_call # None /\ InvalidArguments(analyzer_call) )
        => analyzer_result = "InputValidationError"

\* C10: two runs on the same per-frame sets of contours, with the same head
\* point and circle, have the same head positions and the same flags.
C10_RunsAgree ==
    runs # None =>
        /\ runs[1].heads = runs[2].heads
        /\ runs[1].flags = runs[2].flags
        /\ runs[1].pos = runs[2].pos

\* The runs have seen tied contours in different orders, have moved to one of
\* them, and have recorded both a violation and a frame without one.
C10_Witness ==
    /\ runs # None
    /\ reordered
    /\ Len(runs[1].heads) >= 2
    /\ runs[1].pos # head_initial
    /\ \E i, j \in 1..Len(runs[1].flags) : runs[1].flags[i] /\ ~ runs[1].flags[j]

\* C12: the head position of a frame is the position of the frame before (the
\* marked head point for the first frame) or the centroid of one of the
\* frame's contours, and it is at a distance strictly less than 200 from the
\* position of the frame before, however long the head has been held.
C12_StepWithinGate ==
    /\ FrameProcessed =>
          /\ \/ current_head_pos = prev_head_pos
             \/ \E i \in 1..Len(contours) : current_head_pos = Centroid(contours[i])
          /\ SquaredDistance(current_head_pos, prev_head_pos) < GateRadius * GateRadius
    /\ \A i \in 1..Len(output_frames) :
          SquaredDistance(DrawnHead(output_frames[i]),
                          IF i = 1 THEN head_initial
                          ELSE DrawnHead(output_frames[i - 1]))
             < GateRadius * GateRadius

\* The head has moved in the first frame and has been held in the two frames
\* after it, the last of them showing a contour beyond the gate.
C12_Witness ==
    /\ Len(output_frames) = 3
    /\ DrawnHead(output_frames[1]) # head_initial
    /\ DrawnHead(output_frames[2]) = DrawnHead(output_frames[1])
    /\ DrawnHead(output_frames[3]) = DrawnHead(output_frames[1])
    /\ contours # << >>
    /\ \A i \in 1..Len(contours) :
          SquaredDistance(Centroid(contours[i]), prev_head_pos) > GateRadius * GateRadius

\* The centroids of cs in the gate around p at the least distance from p.
NearestInGate(cs, p) ==
    { c \in InGateCentroids(cs, p) :
        \A e \in InGateCentroids(cs, p) :
            SquaredDistance(c, p) <= SquaredDistance(e, p) }

\* The parts of a tracking step.
TrackPos == track[1]
TrackContours == track[2]
TrackNew == track[3]

\* C11: the new head position is the same for every order of the same
\* contours, and among in-gate centroids at the same least distance it is the
\* one with the smaller x, then the smaller y.
C11_OrderIndependentLexTieBreak ==
    track # None =>
        /\ TrackNew[1] = TrackNew[2]
        /\ NearestInGate(TrackContours[1], TrackPos) # { } =>
              /\ TrackNew[1] \in NearestInGate(TrackContours[1], TrackPos)
              /\ \A c \in NearestInGate(TrackContours[1], TrackPos) :
                    \/ TrackNew[1][1] < c[1]
                    \/ ( TrackNew[1][1] = c[1] /\ TrackNew[1][2] <= c[2] )

\* Two contours at the same distance in two different orders, the one with
\* the smaller x having the larger y, and the one with the smaller x taken.
C11_Witness ==
    /\ track # None
    /\ TrackContours[1] # TrackContours[2]
    /\ \E c, e \in NearestInGate(TrackContours[1], TrackPos) :
          /\ c[1] < e[1]
          /\ c[2] > e[2]
          /\ TrackNew[1] = c
          /\ TrackNew[2] = c

\* The centers of the boxes a head may come from when there is no face: a
\* topmost box among five largest contours (all of them when there are fewer).
TopmostOfFiveLargest(cnts) ==
    LET n == Len(cnts)
        m == IF n < 5 THEN n ELSE 5
        fives == { T \in SUBSET (1..n) :
                     /\ Cardinality(T) = m
                     /\ \A i \in T, j \in (1..n) \ T : cnts[i][1] >= cnts[j][1] }
    IN { BoxCenter(cnts[i][2]) : i \in
           UNION { { i \in T : \A j \in T : cnts[i][2][2] <= cnts[j][2][2] } : T \in fives } }

\* The centers of the largest faces.
LargestFaceCenters(faces) ==
    { BoxCenter(faces[i]) : i \in
        { i \in 1..Len(faces) :
            \A j \in 1..Len(faces) : faces[i][3] * faces[i][4] >= faces[j][3] * faces[j][4] } }

\* What C13 says of one call of get_key_points: it returns; with a face or a
\* contour the dict has a 'head', from the largest face if there is a face and
\* else from the topmost box among the five largest contours; with neither
\* it has no 'head'.
KeyPointsAsClaimed(faces, cnts, result) ==
    /\ result[1] = "returned"
    /\ IF Len(faces) > 0
       THEN "head" \in DOMAIN result[2] /\ result[2]["head"] \in LargestFaceCenters(faces)
       ELSE IF Len(cnts) > 0
       THEN "head" \in DOMAIN result[2] /\ result[2]["head"] \in TopmostOfFiveLargest(cnts)
       ELSE "head" \notin DOMAIN result[2]

\* C13 as stated: every call of get_key_points returns a dict, with the head
\* entry as described.
C13_KeyPointsForEveryDetection ==
    ( analyzer_call # None /\ analyzer_call[1] = "get_key_points" )
        => KeyPointsAsClaimed(analyzer_call[2], analyzer_call[3], analyzer_result)

\* The annotated frames displayed were made from the frames of the video in
\* the uploader.
DisplayedOfUploaded ==
    /\ uploader # None
    /\ \A i \in 1..Len(displayed[1]) : displayed[1][i].id[1] = uploader[2]

\* C14 as stated: the two cached lists are present together and of equal
\* length, and results that are displayed come from an analysis of the file
\* that is uploaded now.
C14_CacheOfCurrentUpload ==
    /\ ("output_frames" \in DOMAIN session_state)
          <=> ("head_outside_frames" \in DOMAIN session_state)
    /\ ("output_frames" \in DOMAIN session_state)
          => Len(session_state.output_frames) = Len(session_state.head_outside_frames)
    /\ displayed # None => DisplayedOfUploaded

====
